---------------------------- MODULE Spec2Model ----------------------------
(***************************************************************************)
(* A model of the todo-list application of src/src/main.rs.                *)
(*                                                                         *)
(* The program is one render-loop callback, TodoApp::update, run once per  *)
(* frame.  A step of the model is one whole frame: the input delivered in  *)
(* that frame is an event record, and Update applies the phases of the     *)
(* callback to the application state in the order of the source (Load,     *)
(* Save, the item rows, the deferred removal, the "+" button, the add-item *)
(* row).  The state is the TodoApp struct, the process-wide NEXT_ID        *)
(* counter and the content of the file the save dialog writes.  The theme  *)
(* and the text size take no part in any of this and are left out.         *)
(*                                                                         *)
(* Spec is the program with every widget in use.  Its state space (every   *)
(* list the rows can be edited into, times every list a file can hold) is  *)
(* beyond exhaustive search, so the properties are checked over sessions   *)
(* that use a part of the widgets: SpecRows, SpecNoLoad, SpecLoad and      *)
(* SpecRoundTrip.  Each is Spec with some disjuncts of Next never taken.   *)
(***************************************************************************)
EXTENDS Integers, Sequences, FiniteSets, TLC

VARIABLES
    items,              \* TodoApp.items: Vec<TodoItem>
    input,              \* TodoApp.input: String
    showing,            \* TodoApp.showing_add_item_input
    next_id,            \* static NEXT_ID: AtomicU32
    file,               \* content of the file at the save dialog's path
    running,            \* FALSE once the process has panicked
    build,              \* "debug": `max_id + 1` panics on overflow; "release":
                        \* it wraps; "any": no overflow yet, so either build
    last,               \* history: the event of the last frame and its outcome
    assigned,           \* history: ids handed out by add since the last load
    loaded,             \* history: the ids of the last successfully loaded list
    saved               \* history: the item list the saved file was written
                        \* from, <<>> while the file holds none

vars == <<items, input, showing, next_id, file, running, build,
          last, assigned, loaded, saved>>

---------------------------------------------------------------------------
(* Bounds of the model *)

\* longest text typed into a text field
MaxLen == 1
\* longest item list an add may extend
MaxItems == 3
\* adds performed between two loads
MaxAdds == 2

---------------------------------------------------------------------------
(* u32 arithmetic *)

\* The largest value of an id and of the counter.  In the program it is
\* u32::MAX = 4294967295, beyond the integers TLC computes with; the model
\* keeps the arithmetic (a fixed width, wrapping or panicking at the top)
\* at a narrower width.
IdMax == 65535

\* AtomicU32::fetch_add wraps around on overflow
WrapAdd(x, y) == (x + y) % (IdMax + 1)

---------------------------------------------------------------------------
(* Text.  A string is a sequence of characters: " " stands for any white   *)
(* space a multi-line text field can hold, "a" for any other character.    *)

Chars == {"a", " "}

Whitespace == {" "}

\* what can be typed into the add-item text field
Strings == UNION {[1..n -> Chars] : n \in 0..MaxLen}

\* what the text field of a row can be changed to
EditTexts == {<<>>, <<"a">>}

RECURSIVE TrimStart(_)
TrimStart(s) ==
    IF s # <<>> /\ Head(s) \in Whitespace THEN TrimStart(Tail(s)) ELSE s

RECURSIVE TrimEnd(_)
TrimEnd(s) ==
    IF s # <<>> /\ s[Len(s)] \in Whitespace
    THEN TrimEnd(SubSeq(s, 1, Len(s) - 1))
    ELSE s

\* str::trim: the string without its leading and trailing white space
Trim(s) == TrimEnd(TrimStart(s))

---------------------------------------------------------------------------
(* Items *)

TodoItem(id, description, completed, edit) ==
    [id |-> id, description |-> description, completed |-> completed, edit |-> edit]

\* Vec::remove(index) with a 0-based index, here 1-based; the vector is
\* left alone where the source would panic (index out of bounds)
RemoveAt(v, index) ==
    IF index \in 1..Len(v)
    THEN SubSeq(v, 1, index - 1) \o SubSeq(v, index + 1, Len(v))
    ELSE v

\* the indices pushed by the row loop, in the order of the enumeration
RECURSIVE MarkedInOrder(_, _, _)
MarkedInOrder(marked, index, n) ==
    IF index > n THEN <<>>
    ELSE (IF index \in marked THEN <<index>> ELSE <<>>)
         \o MarkedInOrder(marked, index + 1, n)

\* for &index in to_remove.iter().rev() { self.items.remove(index); }
RECURSIVE RemoveFrom(_, _, _)
RemoveFrom(v, to_remove, k) ==
    IF k = 0 THEN v
    ELSE RemoveFrom(RemoveAt(v, to_remove[k]), to_remove, k - 1)

\* RemoveMarked as it would be without `.rev()`: the indices taken in
\* ascending order, each removal shifting the later ones
RECURSIVE RemoveForward(_, _, _)
RemoveForward(v, to_remove, k) ==
    IF k > Len(to_remove) THEN v
    ELSE RemoveForward(RemoveAt(v, to_remove[k]), to_remove, k + 1)

RemoveMarkedAscending(v, to_remove) == RemoveForward(v, to_remove, 1)

RemoveMarked(v, to_remove) == RemoveFrom(v, to_remove, Len(to_remove))

\* self.items.iter().max_by_key(|item| item.id).map_or(0, |item| item.id)
RECURSIVE MaxIdFrom(_, _, _)
MaxIdFrom(v, k, best) ==
    IF k > Len(v) THEN best
    ELSE MaxIdFrom(v, k + 1, IF v[k].id >= best THEN v[k].id ELSE best)

MaxId(v) == MaxIdFrom(v, 1, 0)

---------------------------------------------------------------------------
(* The file format.  A document is what a path holds: nothing readable     *)
(* ("absent"), bytes that are not JSON ("garbage"), or a JSON array whose  *)
(* elements are objects, each a sequence of key/value fields.  A value is  *)
(* a number, a string or a boolean.                                        *)

JNum(key, n) == [key |-> key, t |-> "num", n |-> n, s |-> <<>>, b |-> FALSE]
JStr(key, s) == [key |-> key, t |-> "str", n |-> 0, s |-> s, b |-> FALSE]
JBool(key, b) == [key |-> key, t |-> "bool", n |-> 0, s |-> <<>>, b |-> b]

Absent == [kind |-> "absent", elems |-> <<>>]
Garbage == [kind |-> "garbage", elems |-> <<>>]
JArray(elems) == [kind |-> "array", elems |-> elems]

\* #[derive(Serialize)] struct TodoItem: the fields in declaration order
SerializeItem(item) ==
    << JNum("id", item.id),
       JStr("description", item.description),
       JBool("completed", item.completed),
       JBool("edit", item.edit) >>

\* serde_json::to_writer_pretty(writer, &self.items)
Serialize(v) == JArray([k \in 1..Len(v) |-> SerializeItem(v[k])])

FieldsNamed(obj, key) == {k \in 1..Len(obj) : obj[k].key = key}

FieldNamed(obj, key) == obj[CHOOSE k \in FieldsNamed(obj, key) : TRUE]

\* #[derive(Deserialize)] struct TodoItem: every field exactly once (a
\* missing or a duplicate field is an error), of its type, the id within
\* u32; a key that names no field is skipped
ItemParses(obj) ==
    /\ \A key \in {"id", "description", "completed", "edit"} :
          Cardinality(FieldsNamed(obj, key)) = 1
    /\ FieldNamed(obj, "id").t = "num"
    /\ FieldNamed(obj, "id").n \in 0..IdMax
    /\ FieldNamed(obj, "description").t = "str"
    /\ FieldNamed(obj, "completed").t = "bool"
    /\ FieldNamed(obj, "edit").t = "bool"

DeserializeItem(obj) ==
    TodoItem(FieldNamed(obj, "id").n,
             FieldNamed(obj, "description").s,
             FieldNamed(obj, "completed").b,
             FieldNamed(obj, "edit").b)

\* serde_json::from_reader(reader) at type Vec<TodoItem>: Ok(items) or Err
Deserialize(doc) ==
    IF doc.kind = "array" /\ \A k \in 1..Len(doc.elems) : ItemParses(doc.elems[k])
    THEN [ok |-> TRUE,
          items |-> [k \in 1..Len(doc.elems) |-> DeserializeItem(doc.elems[k])]]
    ELSE [ok |-> FALSE, items |-> <<>>]

\* The files the open dialog can pick besides the one the program saved.
ExternalDocs ==
    << Absent,
       Garbage,
       JArray(<<>>),
       JArray(<< SerializeItem(TodoItem(1, <<"a">>, FALSE, FALSE)),
                 SerializeItem(TodoItem(2, <<"a">>, TRUE, FALSE)) >>),
       JArray(<< SerializeItem(TodoItem(3, <<"a">>, FALSE, TRUE)),
                 SerializeItem(TodoItem(1, <<>>, FALSE, FALSE)),
                 SerializeItem(TodoItem(2, <<"a">>, TRUE, FALSE)) >>),
       JArray(<< SerializeItem(TodoItem(1, <<"a">>, FALSE, FALSE)),
                 SerializeItem(TodoItem(1, <<"a">>, TRUE, FALSE)) >>),
       JArray(<< SerializeItem(TodoItem(0, <<"a">>, FALSE, FALSE)),
                 SerializeItem(TodoItem(IdMax, <<"a">>, FALSE, FALSE)) >>),
       JArray(<< SerializeItem(TodoItem(IdMax - 1, <<"a">>, FALSE, FALSE)) >>),
       JArray(<< SerializeItem(TodoItem(1, <<"a">>, FALSE, FALSE)),
                 << JNum("id", 2), JStr("description", <<"a">>),
                    JBool("completed", FALSE) >> >>),
       JArray(<< << JNum("id", IdMax + 1), JStr("description", <<"a">>),
                    JBool("completed", FALSE), JBool("edit", FALSE) >> >>),
       JArray(<< << JBool("edit", FALSE), JStr("note", <<"a">>),
                    JBool("completed", TRUE), JStr("description", <<"a">>),
                    JNum("id", 2) >> >>) >>

---------------------------------------------------------------------------
(* One frame.  The world a frame acts on: the TodoApp fields, NEXT_ID, the *)
(* saved file, whether the process is alive, and the line the frame wrote  *)
(* to stderr ("" when it wrote none).                                      *)

World ==
    [items |-> items, input |-> input, showing |-> showing, next_id |-> next_id,
     file |-> file, running |-> running, log |-> ""]

\* The input of a frame.  kind: the widget acted on; index: its row;
\* text: the content typed; marked: the rows whose delete button fired;
\* pick: what the dialog returned ("dismissed", "saved" for the path the
\* program saved to, "external" for ExternalDocs[ext]); io: how the
\* file write went.
Event(kind, index, text, marked, pick, ext, io) ==
    [kind |-> kind, index |-> index, text |-> text, marked |-> marked,
     pick |-> pick, ext |-> ext, io |-> io]

PickedDoc(saved_file, pick, ext) ==
    IF pick = "saved" THEN saved_file ELSE ExternalDocs[ext]

\* load_from_file_dialog, the Ok(items) arm: the list is replaced and
\* NEXT_ID stored; `max_id + 1` is a u32 addition, which panics in a build
\* with overflow checks and wraps in one without
StoreLoaded(w, parsed, checks) ==
    LET max_id == MaxId(parsed)
    IN  IF max_id + 1 > IdMax /\ checks
        THEN [w EXCEPT !.items = parsed, !.running = FALSE,
                       !.log = "attempt to add with overflow"]
        ELSE [w EXCEPT !.items = parsed, !.next_id = WrapAdd(max_id, 1)]

\* whether the frame of `ev` evaluates `max_id + 1` beyond u32
Overflows(w, ev) ==
    /\ ev.kind = "load"
    /\ ev.pick # "dismissed"
    /\ LET doc == PickedDoc(w.file, ev.pick, ev.ext)
       IN  Deserialize(doc).ok /\ MaxId(Deserialize(doc).items) + 1 > IdMax

\* LoadPhase as it would be if the list were cleared before the file is
\* parsed
LoadPhaseClearsFirst(w, ev, checks) ==
    IF ev.kind # "load" \/ ev.pick = "dismissed" THEN w
    ELSE LET doc == PickedDoc(w.file, ev.pick, ev.ext)
             res == Deserialize(doc)
         IN  IF doc.kind = "absent"
             THEN [w EXCEPT !.log = "Failed to open file"]
             ELSE IF ~res.ok
             THEN [w EXCEPT !.items = <<>>, !.log = "Failed to deserialize items"]
             ELSE StoreLoaded(w, res.items, checks)

\* if ui.button("Load").clicked() { self.load_from_file_dialog(); }
LoadPhase(w, ev, checks) ==
    IF ev.kind # "load" \/ ev.pick = "dismissed" THEN w
    ELSE LET doc == PickedDoc(w.file, ev.pick, ev.ext)
             res == Deserialize(doc)
         IN  IF doc.kind = "absent"
             THEN [w EXCEPT !.log = "Failed to open file"]
             ELSE IF ~res.ok
             THEN [w EXCEPT !.log = "Failed to deserialize items"]
             ELSE StoreLoaded(w, res.items, checks)

\* if ui.button("Save").clicked() { self.save_to_file_dialog(); }
\* File::create truncates the file, so a write that fails leaves a file
\* that is no JSON document
SavePhase(w, ev) ==
    IF ev.kind # "save" \/ ev.pick = "dismissed" THEN w
    ELSE IF ev.io = "create_failed"
    THEN [w EXCEPT !.log = "Failed to create file"]
    ELSE IF ev.io = "write_failed"
    THEN [w EXCEPT !.file = Garbage, !.log = "Failed to write items to file."]
    ELSE [w EXCEPT !.file = Serialize(w.items)]

\* Row as it would be if the confirm button refused an empty description
RowConfirmNeedsText(item, index, ev) ==
    LET hit == ev.index = index
        checked == IF ev.kind = "toggle" /\ hit
                   THEN [item EXCEPT !.completed = ~item.completed]
                   ELSE item
        typed == IF checked.edit /\ ev.kind = "text" /\ hit
                 THEN [checked EXCEPT !.description = ev.text]
                 ELSE checked
    IN  IF typed.edit
        THEN (IF ev.kind = "confirm" /\ hit /\ typed.description # <<>>
              THEN [typed EXCEPT !.edit = FALSE]
              ELSE typed)
        ELSE (IF ev.kind = "edit" /\ hit THEN [typed EXCEPT !.edit = TRUE] ELSE typed)

\* the body of the row loop for one item: the checkbox, the label or the
\* text field, the confirm or the Edit button
Row(item, index, ev) ==
    LET hit == ev.index = index
        checked == IF ev.kind = "toggle" /\ hit
                   THEN [item EXCEPT !.completed = ~item.completed]
                   ELSE item
        typed == IF checked.edit /\ ev.kind = "text" /\ hit
                 THEN [checked EXCEPT !.description = ev.text]
                 ELSE checked
    IN  IF typed.edit
        THEN (IF ev.kind = "confirm" /\ hit THEN [typed EXCEPT !.edit = FALSE] ELSE typed)
        ELSE (IF ev.kind = "edit" /\ hit THEN [typed EXCEPT !.edit = TRUE] ELSE typed)

\* for (index, item) in self.items.iter_mut().enumerate() { ... } followed
\* by the removal of the rows marked in the loop
RowsPhase(w, ev) ==
    LET n == Len(w.items)
        rows == [k \in 1..n |-> Row(w.items[k], k, ev)]
        to_remove == MarkedInOrder(IF ev.kind = "delete" THEN ev.marked ELSE {}, 1, n)
    IN  [w EXCEPT !.items = RemoveMarked(rows, to_remove)]

\* if !self.showing_add_item_input { if ui.button("+").clicked() { ... } }
PlusPhase(w, ev) ==
    IF ~w.showing /\ ev.kind = "plus" THEN [w EXCEPT !.showing = TRUE] ELSE w

\* PushItem as it would be with NEXT_ID.load(..) in place of fetch_add
PushItemKeepsCounter(w) ==
    [w EXCEPT !.items = Append(w.items, TodoItem(w.next_id, Trim(w.input), FALSE, FALSE)),
              !.input = <<>>,
              !.showing = FALSE]

\* self.items.push(TodoItem { id: NEXT_ID.fetch_add(1, ..), .. }) and the
\* two assignments after it
PushItem(w) ==
    [w EXCEPT !.items = Append(w.items, TodoItem(w.next_id, Trim(w.input), FALSE, FALSE)),
              !.next_id = WrapAdd(w.next_id, 1),
              !.input = <<>>,
              !.showing = FALSE]

\* AddPhase as it would be with `!self.input.is_empty()`, the trim left out
AddPhaseUntrimmedTest(w, ev) ==
    IF ~w.showing THEN w
    ELSE LET typed == IF ev.kind = "type" THEN [w EXCEPT !.input = ev.text] ELSE w
         IN  IF ev.kind = "add" /\ typed.input # <<>>
             THEN [typed EXCEPT
                     !.items = Append(typed.items,
                                      TodoItem(typed.next_id, Trim(typed.input), FALSE, FALSE)),
                     !.next_id = WrapAdd(typed.next_id, 1),
                     !.input = <<>>,
                     !.showing = FALSE]
             ELSE typed

\* if self.showing_add_item_input { text field; confirm button }
AddPhase(w, ev) ==
    IF ~w.showing THEN w
    ELSE LET typed == IF ev.kind = "type" THEN [w EXCEPT !.input = ev.text] ELSE w
         IN  IF ev.kind = "add" /\ Trim(typed.input) # <<>>
             THEN PushItem(typed)
             ELSE typed

\* TodoApp::update: the phases in the order of the source; a panic ends
\* the frame and the process
Update(w, ev, checks) ==
    LET l == LoadPhase(w, ev, checks)
    IN  IF ~l.running THEN l
        ELSE AddPhase(PlusPhase(RowsPhase(SavePhase(l, ev), ev), ev), ev)

---------------------------------------------------------------------------
(* The state machine *)

NoEvent == [kind |-> "start", index |-> 0, marked |-> {}, pick |-> "dismissed",
            ext |-> 1, log |-> ""]

\* TodoApp::default(), NEXT_ID = 1, nothing saved yet
Init ==
    /\ items = <<>>
    /\ input = <<>>
    /\ showing = FALSE
    /\ next_id = 1
    /\ file = Absent
    /\ running = TRUE
    /\ build = "any"
    /\ last = NoEvent
    /\ assigned = <<>>
    /\ loaded = [some |-> FALSE, ids |-> {}]
    /\ saved = <<>>

\* the history a frame leaves: `w` is the world after the frame
History(ev, w) ==
    LET did_load == ev.kind = "load" /\ ev.pick # "dismissed" /\ w.log = ""
        did_save == ev.kind = "save" /\ ev.pick # "dismissed" /\ w.log = ""
        clobbered == w.file # file /\ ~did_save
        did_add == ev.kind = "add" /\ Len(w.items) = Len(items) + 1
    IN  /\ last' = [kind |-> ev.kind, index |-> ev.index, marked |-> ev.marked,
                    pick |-> ev.pick, ext |-> ev.ext, log |-> w.log]
        /\ assigned' = IF did_load THEN <<>>
                       ELSE IF did_add
                       THEN Append(assigned, w.items[Len(w.items)].id)
                       ELSE assigned
        /\ loaded' = IF did_load
                     THEN [some |-> TRUE,
                           ids |-> {w.items[k].id : k \in 1..Len(w.items)}]
                     ELSE loaded
        /\ saved' = IF did_save THEN items ELSE IF clobbered THEN <<>> ELSE saved

\* the frame in which `ev` arrives
Frame(ev) ==
    /\ running
    /\ build' \in IF Overflows(World, ev) /\ build = "any"
                  THEN {"debug", "release"}
                  ELSE {build}
    /\ \E w \in {Update(World, ev, build' = "debug")} :
        /\ items' = w.items
        /\ input' = w.input
        /\ showing' = w.showing
        /\ next_id' = w.next_id
        /\ file' = w.file
        /\ running' = w.running
        /\ History(ev, w)

Rows == 1..Len(items)

\* the Load button; the dialog is dismissed or returns a path
ClickLoad ==
    \/ Frame(Event("load", 0, <<>>, {}, "dismissed", 1, "ok"))
    \/ Frame(Event("load", 0, <<>>, {}, "saved", 1, "ok"))
    \/ \E ext \in 1..Len(ExternalDocs) :
          Frame(Event("load", 0, <<>>, {}, "external", ext, "ok"))

\* the Save button; the dialog is dismissed, or the file is written or not
ClickSave ==
    \/ Frame(Event("save", 0, <<>>, {}, "dismissed", 1, "ok"))
    \/ \E io \in {"ok", "create_failed", "write_failed"} :
          Frame(Event("save", 0, <<>>, {}, "saved", 1, io))

\* the checkbox of a row
ToggleCompleted ==
    \E index \in Rows : Frame(Event("toggle", index, <<>>, {}, "dismissed", 1, "ok"))

\* the text field of a row in edit mode, its content changed
EditDescription ==
    \E index \in Rows, text \in EditTexts :
        /\ items[index].edit
        /\ text # items[index].description
        /\ Frame(Event("text", index, text, {}, "dismissed", 1, "ok"))

\* the Edit button of a row not in edit mode
ClickEdit ==
    \E index \in Rows :
        /\ ~items[index].edit
        /\ Frame(Event("edit", index, <<>>, {}, "dismissed", 1, "ok"))

\* the confirm button of row `index`, drawn while the row is in edit mode
ConfirmRow(index) ==
    /\ items[index].edit
    /\ Frame(Event("confirm", index, <<>>, {}, "dismissed", 1, "ok"))

ClickConfirm == \E index \in Rows : ConfirmRow(index)

\* the delete buttons of any rows, none included
ClickDelete ==
    \E marked \in SUBSET Rows :
        Frame(Event("delete", 0, <<>>, marked, "dismissed", 1, "ok"))

\* the "+" button, drawn while the add-item row is hidden
ClickPlus ==
    /\ ~showing
    /\ Frame(Event("plus", 0, <<>>, {}, "dismissed", 1, "ok"))

\* the text field of the add-item row, its content changed
TypeInput ==
    \E text \in Strings :
        /\ showing
        /\ text # input
        /\ Frame(Event("type", 0, text, {}, "dismissed", 1, "ok"))

\* the confirm button of the add-item row; an add that would push is
\* taken only within the bounds of the model
ClickAdd ==
    /\ showing
    /\ Trim(input) # <<>> => Len(items) < MaxItems /\ Len(assigned) < MaxAdds
    /\ Frame(Event("add", 0, <<>>, {}, "dismissed", 1, "ok"))

Next ==
    \/ ClickLoad
    \/ ClickSave
    \/ ToggleCompleted
    \/ EditDescription
    \/ ClickEdit
    \/ ClickConfirm
    \/ ClickDelete
    \/ ClickPlus
    \/ TypeInput
    \/ ClickAdd

\* every session
Spec == Init /\ [][Next]_vars

\* sessions that add and delete items and edit their rows
NextRows ==
    \/ ToggleCompleted
    \/ EditDescription
    \/ ClickEdit
    \/ ClickConfirm
    \/ ClickDelete
    \/ ClickPlus
    \/ TypeInput
    \/ ClickAdd

SpecRows == Init /\ [][NextRows]_vars

\* sessions in which the Load button is never used
NextNoLoad == ClickSave \/ NextRows

SpecNoLoad == Init /\ [][NextNoLoad]_vars

\* sessions that load files and add and delete items
NextLoad == ClickLoad \/ ClickDelete \/ ClickPlus \/ TypeInput \/ ClickAdd

SpecLoad == Init /\ [][NextLoad]_vars

\* sessions that load and save files and delete items
NextRoundTrip == ClickLoad \/ ClickSave \/ ClickDelete

SpecRoundTrip == Init /\ [][NextRoundTrip]_vars

---------------------------------------------------------------------------
(* Vocabulary of the properties *)

Ids(v) == {v[k].id : k \in 1..Len(v)}

Largest(S) == CHOOSE m \in S : \A n \in S : n <= m

\* a text with no character other than white space
IsBlank(s) == \A k \in 1..Len(s) : s[k] \in Whitespace

\* the elements of v at the positions outside `marked`, in their order
RECURSIVE KeepUnmarked(_, _)
KeepUnmarked(v, marked) ==
    IF v = <<>> THEN <<>>
    ELSE KeepUnmarked(SubSeq(v, 1, Len(v) - 1), marked)
         \o (IF Len(v) \in marked THEN <<>> ELSE <<v[Len(v)]>>)

EditFlags(v) == [k \in 1..Len(v) |-> v[k].edit]

\* the load of the last frame did not succeed: no path, no readable file,
\* or no item array in it
LoadFails(f, pick, ext) ==
    \/ pick = "dismissed"
    \/ PickedDoc(f, pick, ext).kind # "array"
    \/ \E k \in 1..Len(PickedDoc(f, pick, ext).elems) :
          ~ItemParses(PickedDoc(f, pick, ext).elems[k])

---------------------------------------------------------------------------
(* The properties *)

\* C1: in every reachable state no two items of the list have the same id.
C1_UniqueIds ==
    \A i, j \in 1..Len(items) : i # j => items[i].id # items[j].id

\* C2: in a session of adds and deletes the ids handed out by successive
\* adds are strictly increasing, so none is handed out twice, also after
\* the item that held it was deleted.
C2_IdsStrictlyIncrease ==
    \A i, j \in 1..Len(assigned) : i < j => assigned[i] < assigned[j]

\* two ids were handed out and an item that held one of them is deleted
C2_Witness ==
    /\ Len(assigned) = 2
    /\ \E k \in 1..2 : assigned[k] \notin Ids(items)

\* C3: the first add after a successful load gets the largest loaded id
\* plus one, and 1 after the load of an empty array.
C3_NextAddAfterLoad ==
    (loaded.some /\ assigned # <<>>) =>
        assigned[1] = IF loaded.ids = {} THEN 1 ELSE Largest(loaded.ids) + 1

\* C4: no id handed out after a successful load is the id of a loaded item.
C4_NoCollisionAfterLoad ==
    loaded.some => \A k \in 1..Len(assigned) : assigned[k] \notin loaded.ids

\* C5: a successful load of the file the program saved gives back the list
\* as it was at the save and leaves the generator at its largest id plus one.
C5_RoundTrip ==
    (last.kind = "load" /\ last.pick = "saved" /\ last.log = "") =>
        /\ items = saved
        /\ next_id = IF saved = <<>> THEN 1 ELSE Largest(Ids(saved)) + 1

\* C6: a load that does not succeed (the dialog dismissed, the file not
\* opened, the content not an item array) changes neither the list nor the
\* generator nor the rest of the state, and the program keeps running.
C6_FailedLoadKeepsState ==
    [][(last'.kind = "load" /\ LoadFails(file, last'.pick, last'.ext)) =>
          /\ items' = items
          /\ next_id' = next_id
          /\ input' = input
          /\ showing' = showing
          /\ file' = file
          /\ running']_vars

\* a file that does not parse was picked while the list held items and
\* the generator had moved
C6_Witness ==
    /\ last.kind = "load"
    /\ last.log = "Failed to deserialize items"
    /\ items # <<>>
    /\ next_id > 1
    /\ running

\* C7: the removal pass of a frame removes exactly the items at the marked
\* indices and keeps the others, unchanged, in their order.
C7_RemovesExactlyMarked ==
    [][last'.kind = "delete" => items' = KeepUnmarked(items, last'.marked)]_vars

\* the first and the third of three items were deleted in one frame
C7_Witness ==
    /\ last.kind = "delete"
    /\ last.marked = {1, 3}
    /\ Len(items) = 1

\* C8: confirming the add-item row with an empty or all-white-space text
\* changes nothing: the list, the generator, the text and the visible row.
C8_BlankAddIsNoOp ==
    [][(last'.kind = "add" /\ IsBlank(input)) =>
          /\ items' = items
          /\ next_id' = next_id
          /\ input' = input
          /\ showing /\ showing']_vars

\* the row was confirmed with a text of white space only
C8_Witness ==
    /\ last.kind = "add"
    /\ input # <<>>
    /\ IsBlank(input)
    /\ showing

\* C9: confirming the add-item row with a text that is not blank appends
\* one item (the generator's id, the trimmed text, not completed, not in
\* edit mode), keeps the items before it, advances the generator by one,
\* clears the text and hides the row.
C9_AddAppendsOne ==
    [][(last'.kind = "add" /\ ~IsBlank(input)) =>
          /\ items' = Append(items, TodoItem(next_id, Trim(input), FALSE, FALSE))
          /\ next_id' = next_id + 1
          /\ input' = <<>>
          /\ ~showing']_vars

\* what a frame may do to the edit flags, by the widget it acted on
C10_EditFlagSteps ==
    /\ last'.kind \in {"toggle", "text", "save", "plus", "type"} =>
          EditFlags(items') = EditFlags(items)
    /\ last'.kind = "add" =>
          /\ Len(items') >= Len(items)
          /\ SubSeq(EditFlags(items'), 1, Len(items)) = EditFlags(items)
    /\ last'.kind = "delete" =>
          EditFlags(items') = EditFlags(KeepUnmarked(items, last'.marked))
    /\ last'.kind = "edit" =>
          /\ ~items[last'.index].edit
          /\ EditFlags(items') = [EditFlags(items) EXCEPT ![last'.index] = TRUE]
    /\ last'.kind = "confirm" =>
          /\ items[last'.index].edit
          /\ EditFlags(items') = [EditFlags(items) EXCEPT ![last'.index] = FALSE]

\* the confirm button of a row in edit mode can be clicked
C10_ConfirmNeverBlocked ==
    \A index \in Rows : (running /\ items[index].edit) => ENABLED ConfirmRow(index)

\* C10: the edit flag of a row becomes TRUE on its Edit click and FALSE on
\* its confirm click, whatever its description; toggling, editing the
\* text, adding, deleting other rows and saving leave the flag of every
\* remaining row as it was; the confirm button of a row in edit mode can
\* always be clicked.
C10_EditFlagMachine ==
    [][C10_EditFlagSteps]_vars /\ []C10_ConfirmNeverBlocked

\* a row with an empty description was confirmed while another row exists
C10_Witness ==
    /\ last.kind = "confirm"
    /\ Len(items) = 2
    /\ items[last.index].description = <<>>
    /\ ~items[last.index].edit

=============================================================================
